---- MODULE Spec2Model ----
(***************************************************************************)
(* Model of the operators of                                               *)
(*   scripts/templates_py/operator_modal_draw.py   (freehand draw demo)    *)
(*   scripts/startup/bl_operators/grease_pencil.py (layer mask, warp)      *)
(* Each operator is a callback of the host; an action is one call of a     *)
(* callback by the host, from its entry to its return.                     *)
(***************************************************************************)
EXTENDS Integers, Sequences, FiniteSets, TLC

(***************************************************************************)
(* Bounds of the model.                                                    *)
(***************************************************************************)
\* list objects that can be alive at once in the draw demo
MaxObjs == 3
\* points a stroke of the draw demo can hold
MaxPts == 2
\* mouse positions are <<x, MaxX - x>>, x \in 0..MaxX
MaxX == 1
\* nodes (layers and layer groups) of the grease pencil layer tree
MaxNodes == 3
\* stroke points of the warp have coordinates in 0..MaxCoord, handles are
\* moved to coordinates in 0..MaxCoord + 1
MaxCoord == 1
\* points of the stroke the warp works on
MaxWarpPts == 2
\* handle moves the user makes in one warp session
MaxMoves == 1
\* warp sessions that get past the precondition checks
MaxWarpSessions == 1

VARIABLES
    \* ---- operator_modal_draw.py ----
    heap,            \* the list objects: object id -> sequence of points
    strokes,         \* module global `strokes`: sequence of object ids
    redo_stack,      \* module global `redo_stack`: sequence of object ids
    current_stroke,  \* module global `current_stroke`: an object id
    running,         \* a ModalDrawOperator is a modal handler of the window
    draw_handlers,   \* number of draw handlers registered in SpaceView3D
    removals,        \* draw_handler_remove calls of the current/last session
    sessions,        \* 0: no session invoked yet, 1: at least one
    left_held,       \* a LEFTMOUSE PRESS was handled and no RELEASE since
    earlier,         \* ids of the strokes recorded in a session that ended
    gesture,         \* the events of the last LEFTMOUSE PRESS..RELEASE, see NoGesture
    lastOp,          \* the callback that ran last
    lastEvent,       \* the event it was given
    result,          \* what it returned
    report,          \* the text of the last self.report({'ERROR'}, ...), or "NONE"
    \* ---- grease_pencil.py: GREASE_PENCIL_OT_relative_layer_mask_add ----
    node_kind,       \* node -> "LAYER" | "GROUP", nodes in tree order, bottom first
    mask_layers,     \* node -> the names in layer.mask_layers, in order
    use_masks,       \* node -> layer.use_masks
    active_layer,    \* obj.data.layers.active
    mask_mode,       \* self.mode of the last execute
    \* ---- grease_pencil.py: GREASE_PENCIL_OT_perspective_warp ----
    active_object,   \* context.active_object: "GP" (the grease pencil object) or "HANDLE"
    has_frame,       \* layer.frames.active is not None
    frame_strokes,   \* frame.strokes: sequence of strokes, a stroke is its points' (x, y)
    objects,         \* bpy.data.objects: handle object id -> its location (x, y)
    handles,         \* self._handles: sequence of object ids (<<>>: None)
    src_bbox,        \* self._src_bbox: the four corners (<<>>: None)
    confirm,         \* self._confirm
    warp_running,    \* the operator is a modal handler of the window
    warp_sessions,   \* sessions started so far
    moves            \* handle moves of the user in this session

drawVars == <<heap, strokes, redo_stack, current_stroke, running,
              draw_handlers, removals, sessions, left_held, earlier, gesture>>
maskVars == <<node_kind, mask_layers, use_masks, active_layer, mask_mode>>
warpVars == <<active_object, has_frame, frame_strokes, objects, handles, src_bbox,
              confirm, warp_running, warp_sessions, moves>>
vars == <<drawVars, maskVars, warpVars, lastOp, lastEvent, result, report>>

(***************************************************************************)
(* Helpers                                                                 *)
(***************************************************************************)
Range(s) == {s[i] : i \in 1..Len(s)}
Front(s) == SubSeq(s, 1, Len(s) - 1)
Last(s) == s[Len(s)]

ObjIds == 1..MaxObjs
Positions == {<<x, MaxX - x>> : x \in 0..MaxX}
\* The events the host delivers: buttons and keys are pressed and released,
\* a mouse move has no value.
Events == ({"RIGHTMOUSE", "ESC", "LEFTMOUSE", "Z", "Y", "A"} \X {"PRESS", "RELEASE"})
              \cup {<<"MOUSEMOVE", "NOTHING">>}
NoEvent == [type |-> "NONE", value |-> "NOTHING"]

\* The list objects some name of the module still refers to.
Live(s, r, c) == Range(s) \cup Range(r) \cup {c}
\* `[]`: a new list object, distinct from every live one.
FreeIds == ObjIds \ Live(strokes, redo_stack, current_stroke)
NewList == CHOOSE i \in FreeIds : \A j \in FreeIds : i <= j

(***************************************************************************)
(* operator_modal_draw.py                                                  *)
(***************************************************************************)
\* draw_callback_px: the polylines handed to batch.draw, in order.
StoredPolylines(s) ==
    IF s = <<>> THEN <<>>
    ELSE LET sel == SelectSeq(s, LAMBDA i : Len(heap[i]) >= 2)
         IN [k \in 1..Len(sel) |-> heap[sel[k]]]
draw_callback_px ==
    StoredPolylines(strokes) \o
    (IF heap[current_stroke] # <<>> THEN <<heap[current_stroke]>> ELSE <<>>)

\* strokes.pop() pushed on redo_stack, as a function of the two lists.
UndoLists_pushFront(s, r) == IF s # <<>> THEN <<Front(s), <<Last(s)>> \o r>> ELSE <<s, r>>
UndoLists(s, r) == IF s # <<>> THEN <<Front(s), Append(r, Last(s))>> ELSE <<s, r>>
\* redo_stack.pop() pushed on strokes.
RedoLists_popOnly(s, r) == IF r # <<>> THEN <<s, Front(r)>> ELSE <<s, r>>
RedoLists(s, r) == IF r # <<>> THEN <<Append(s, Last(r)), Front(r)>> ELSE <<s, r>>

\* redo_stack.clear() of the LEFTMOUSE PRESS branch.
ClearedRedo_kept(r) == r
ClearedRedo(r) == <<>>

\* The module's names after an operation. Object ids are addresses: the live
\* objects are renamed in the order strokes, redo_stack, current_stroke, which
\* keeps their contents and every aliasing between the three names.
SetLists(s, r, c, h) ==
    LET order == s \o r \o (IF c \in Range(s) \cup Range(r) THEN <<>> ELSE <<c>>)
        idx(i) == CHOOSE k \in 1..Len(order) : order[k] = i
    IN /\ strokes' = [k \in 1..Len(s) |-> idx(s[k])]
       /\ redo_stack' = [k \in 1..Len(r) |-> idx(r[k])]
       /\ current_stroke' = idx(c)
       /\ heap' = [i \in ObjIds |-> IF i <= Len(order) THEN h[order[i]] ELSE <<>>]
       /\ earlier' = {idx(i) : i \in earlier \cap (Range(s) \cup Range(r))}

\* current_stroke.append((event.mouse_region_x, event.mouse_region_y))
MovedStroke_prepend(points, pos) == <<pos>> \o points
MovedStroke(points, pos) == Append(points, pos)

\* The contents of a list of strokes, object ids resolved.
Contents(h, s) == [k \in 1..Len(s) |-> h[s[k]]]

\* History of the events the modal handler was given: `before` is the contents
\* of strokes when the last LEFTMOUSE PRESS arrived, `moves` the positions of
\* the MOUSEMOVE events since. The phase is "open" from that PRESS until its
\* RELEASE, "closed" in the state its RELEASE leaves, and "none" otherwise and
\* as soon as an undo, a redo or a cancel came in between.
NoGesture == [phase |-> "none", before |-> <<>>, moves |-> <<>>]
Ongoing(g) == IF g.phase = "open" THEN g ELSE NoGesture

\* The event types that end the session.
CancelKeys_onlyEsc == {"ESC"}
CancelKeys == {"RIGHTMOUSE", "ESC"}

ModalDrawOperator_invoke_reset ==
    /\ ~running
    /\ draw_handlers' = draw_handlers + 1
    /\ running' = TRUE
    /\ removals' = 0
    /\ sessions' = 1
    /\ left_held' = FALSE
    /\ gesture' = NoGesture
    /\ lastOp' = "invoke"
    /\ lastEvent' = NoEvent
    /\ result' = "RUNNING_MODAL"
    /\ SetLists(<<>>, <<>>, current_stroke, heap)
    /\ UNCHANGED <<maskVars, warpVars, report>>
ModalDrawOperator_invoke ==
    /\ ~running
    /\ draw_handlers' = draw_handlers + 1
    /\ running' = TRUE
    /\ removals' = 0
    /\ sessions' = 1
    /\ left_held' = FALSE
    /\ gesture' = NoGesture
    /\ lastOp' = "invoke"
    /\ lastEvent' = NoEvent
    /\ result' = "RUNNING_MODAL"
    /\ UNCHANGED <<heap, strokes, redo_stack, current_stroke, earlier>>
    /\ UNCHANGED <<maskVars, warpVars, report>>

ModalDrawOperator_modal(type, value, pos) ==
    /\ running
    /\ lastOp' = "modal"
    /\ lastEvent' = [type |-> type, value |-> value]
    /\ UNCHANGED <<maskVars, warpVars, report>>
    /\ IF type \in CancelKeys THEN
         /\ draw_handlers' = draw_handlers - 1
         /\ removals' = removals + 1
         /\ running' = FALSE
         /\ result' = "CANCELLED"
         /\ earlier' = Range(strokes) \cup Range(redo_stack)
         /\ gesture' = NoGesture
         /\ UNCHANGED <<heap, strokes, redo_stack, current_stroke, sessions, left_held>>
       ELSE
         /\ result' = "RUNNING_MODAL"
         /\ UNCHANGED <<running, draw_handlers, removals, sessions>>
         /\ IF type = "LEFTMOUSE" THEN
              IF value = "PRESS" THEN
                /\ FreeIds # {}
                /\ SetLists(Append(strokes, NewList), ClearedRedo(redo_stack), NewList,
                            [heap EXCEPT ![NewList] = <<>>])
                /\ left_held' = TRUE
                /\ gesture' = [phase |-> "open", before |-> Contents(heap, strokes),
                               moves |-> <<>>]
              ELSE IF value = "RELEASE" THEN
                /\ FreeIds # {}
                /\ SetLists(strokes, redo_stack, NewList, [heap EXCEPT ![NewList] = <<>>])
                /\ left_held' = FALSE
                /\ gesture' = IF gesture.phase = "open"
                                THEN [gesture EXCEPT !.phase = "closed"] ELSE NoGesture
              ELSE /\ gesture' = Ongoing(gesture)
                   /\ UNCHANGED <<heap, strokes, redo_stack, current_stroke, earlier,
                                  left_held>>
            ELSE IF type = "MOUSEMOVE" THEN
              /\ Len(heap[current_stroke]) < MaxPts
              /\ heap' = [heap EXCEPT ![current_stroke] = MovedStroke(@, pos)]
              /\ gesture' = IF gesture.phase = "open"
                              THEN [gesture EXCEPT !.moves = Append(@, pos)] ELSE NoGesture
              /\ UNCHANGED <<strokes, redo_stack, current_stroke, earlier, left_held>>
            ELSE IF type = "Z" /\ value = "PRESS" THEN
              /\ SetLists(UndoLists(strokes, redo_stack)[1], UndoLists(strokes, redo_stack)[2],
                          current_stroke, heap)
              /\ gesture' = NoGesture
              /\ UNCHANGED left_held
            ELSE IF type = "Y" /\ value = "PRESS" THEN
              /\ SetLists(RedoLists(strokes, redo_stack)[1], RedoLists(strokes, redo_stack)[2],
                          current_stroke, heap)
              /\ gesture' = NoGesture
              /\ UNCHANGED left_held
            ELSE /\ gesture' = Ongoing(gesture)
                 /\ UNCHANGED <<heap, strokes, redo_stack, current_stroke, earlier,
                                left_held>>

\* The panel's buttons get no event while a modal session consumes them all.
StrokeUndo_execute ==
    /\ ~running
    /\ SetLists(UndoLists(strokes, redo_stack)[1], UndoLists(strokes, redo_stack)[2],
                current_stroke, heap)
    /\ lastOp' = "undo"
    /\ lastEvent' = NoEvent
    /\ result' = "FINISHED"
    /\ gesture' = NoGesture
    /\ UNCHANGED <<running, draw_handlers, removals, sessions, left_held>>
    /\ UNCHANGED <<maskVars, warpVars, report>>

StrokeRedo_execute ==
    /\ ~running
    /\ SetLists(RedoLists(strokes, redo_stack)[1], RedoLists(strokes, redo_stack)[2],
                current_stroke, heap)
    /\ lastOp' = "redo"
    /\ lastEvent' = NoEvent
    /\ result' = "FINISHED"
    /\ gesture' = NoGesture
    /\ UNCHANGED <<running, draw_handlers, removals, sessions, left_held>>
    /\ UNCHANGED <<maskVars, warpVars, report>>

\* The draw demo as its module is loaded.
DrawLoaded ==
    /\ heap = [i \in ObjIds |-> <<>>]
    /\ strokes = <<>>
    /\ redo_stack = <<>>
    /\ current_stroke = 1
    /\ running = FALSE
    /\ draw_handlers = 0
    /\ removals = 0
    /\ sessions = 0
    /\ left_held = FALSE
    /\ earlier = {}
    /\ gesture = NoGesture

\* No operator has been called yet.
NothingCalled ==
    /\ lastOp = "load"
    /\ lastEvent = NoEvent
    /\ result = "NONE"
    /\ report = "NONE"

\* The layer tree while only the draw demo is used.
MaskIdle ==
    /\ node_kind = [n \in 1..MaxNodes |-> "LAYER"]
    /\ mask_layers = [n \in 1..MaxNodes |-> <<>>]
    /\ use_masks = [n \in 1..MaxNodes |-> FALSE]
    /\ active_layer = 1
    /\ mask_mode = "ABOVE"

\* The warp operator before any call: no handle object, no session.
WarpIdle ==
    /\ active_object = "GP"
    /\ objects = <<>>
    /\ handles = <<>>
    /\ src_bbox = <<>>
    /\ confirm = FALSE
    /\ warp_running = FALSE
    /\ warp_sessions = 0
    /\ moves = 0
\* The scene while the warp operator is not used: a layer with an empty frame.
NoStrokes ==
    /\ has_frame = TRUE
    /\ frame_strokes = <<>>

InitDraw == DrawLoaded /\ NothingCalled /\ MaskIdle /\ WarpIdle /\ NoStrokes

NextDraw ==
    \/ ModalDrawOperator_invoke
    \/ \E ev \in Events, pos \in Positions :
         ModalDrawOperator_modal(ev[1], ev[2], pos)
    \/ StrokeUndo_execute
    \/ StrokeRedo_execute

SpecDraw == InitDraw /\ [][NextDraw]_vars

(***************************************************************************)
(* grease_pencil.py: GREASE_PENCIL_OT_relative_layer_mask_add              *)
(* The nodes 1..MaxNodes are the children of one group, bottom first; a     *)
(* node's name is its number (the host keeps names unique).                *)
(***************************************************************************)
Nodes == 1..MaxNodes
None == 0
\* active_layer.next_node / prev_node: the neighbour above / below, or None.
next_node(n) == IF n + 1 \in Nodes THEN n + 1 ELSE None
prev_node(n) == IF n - 1 \in Nodes THEN n - 1 ELSE None

\* Lines 46-49: the neighbour the mode selects.
MaskingLayer_alwaysAbove(mode, n) == next_node(n)
MaskingLayer(mode, n) == IF mode = "ABOVE" THEN next_node(n) ELSE prev_node(n)

\* Line 51: the neighbour is missing or is no layer.
NoLayerFound(m) == m = None \/ node_kind[m] # "LAYER"

\* Line 55: `masking_layer.name in active_layer.mask_layers`.
AlreadyMask_never(m, masks) == FALSE
AlreadyMask(m, masks) == m \in Range(masks)

\* bpy.ops.grease_pencil.layer_mask_add(name=...): the host appends a mask of
\* that name to the active layer's masks.
LayerMaskAdd(masks, name) == Append(masks, name)

RelativeLayerMaskAdd_execute(mode) ==
    LET masking_layer == MaskingLayer(mode, active_layer)
    IN /\ lastOp' = "mask_add"
       /\ lastEvent' = NoEvent
       /\ mask_mode' = mode
       /\ UNCHANGED <<drawVars, warpVars, node_kind, active_layer>>
       /\ IF NoLayerFound(masking_layer) THEN
            /\ report' = "No layer found"
            /\ result' = "CANCELLED"
            /\ UNCHANGED <<mask_layers, use_masks>>
          ELSE IF AlreadyMask(masking_layer, mask_layers[active_layer]) THEN
            /\ report' = "Layer is already added as a mask"
            /\ result' = "CANCELLED"
            /\ UNCHANGED <<mask_layers, use_masks>>
          ELSE
            /\ mask_layers' = [mask_layers EXCEPT
                                  ![active_layer] = LayerMaskAdd(@, masking_layer)]
            /\ use_masks' = [use_masks EXCEPT ![active_layer] = TRUE]
            /\ report' = "NONE"
            /\ result' = "FINISHED"

\* The user makes another layer the active one (poll: the active node is a layer).
SelectLayer(n) ==
    /\ node_kind[n] = "LAYER"
    /\ n # active_layer
    /\ active_layer' = n
    /\ lastOp' = "select_layer"
    /\ lastEvent' = NoEvent
    /\ result' = "NONE"
    /\ report' = "NONE"
    /\ UNCHANGED <<drawVars, warpVars, node_kind, mask_layers, use_masks, mask_mode>>

\* The mask lists a layer can have before the operator is used: none, or one
\* mask of another layer.
InitialMasks(n) ==
    {<<>>} \cup {<<m>> : m \in {l \in Nodes : l # n /\ node_kind[l] = "LAYER"}}

\* Any tree of layers and groups whose active node is a layer.
InitMask ==
    /\ DrawLoaded
    /\ NothingCalled
    /\ node_kind \in [Nodes -> {"LAYER", "GROUP"}]
    /\ active_layer \in Nodes
    /\ node_kind[active_layer] = "LAYER"
    /\ mask_layers \in [Nodes -> UNION {InitialMasks(n) : n \in Nodes}]
    /\ \A n \in Nodes : mask_layers[n] \in InitialMasks(n)
    /\ \A n \in Nodes : node_kind[n] = "GROUP" => mask_layers[n] = <<>>
    /\ use_masks \in [Nodes -> BOOLEAN]
    /\ \A n \in Nodes : node_kind[n] = "GROUP" => ~use_masks[n]
    /\ mask_mode = "ABOVE"
    /\ WarpIdle
    /\ NoStrokes

NextMask ==
    \/ \E mode \in {"ABOVE", "BELOW"} : RelativeLayerMaskAdd_execute(mode)
    \/ \E n \in Nodes : SelectLayer(n)

SpecMask == InitMask /\ [][NextMask]_vars

(***************************************************************************)
(* Exact arithmetic for the coordinates of the warp: a number is a fraction *)
(* <<numerator, denominator>> in lowest terms with a positive denominator.  *)
(***************************************************************************)
Abs(a) == IF a < 0 THEN -a ELSE a
RECURSIVE Gcd(_, _)
Gcd(a, b) == IF b = 0 THEN a ELSE Gcd(b, a % b)
Rat(a, b) ==
    LET g == Gcd(Abs(a), Abs(b))
        sg == IF b < 0 THEN -1 ELSE 1
    IN <<(sg * a) \div g, (sg * b) \div g>>
RInt(a) == <<a, 1>>
Zero == RInt(0)
One == RInt(1)
RAdd(p, q) == Rat(p[1] * q[2] + q[1] * p[2], p[2] * q[2])
RSub(p, q) == Rat(p[1] * q[2] - q[1] * p[2], p[2] * q[2])
RMul(p, q) == Rat(p[1] * q[1], p[2] * q[2])
RDiv(p, q) == Rat(p[1] * q[2], p[2] * q[1])
RNeg(p) == <<-p[1], p[2]>>
RLess(p, q) == p[1] * q[2] < q[1] * p[2]
\* min(...) and max(...) of a non-empty set of numbers.
RMin(S) == CHOOSE m \in S : \A o \in S : ~RLess(o, m)
RMax(S) == CHOOSE m \in S : \A o \in S : ~RLess(m, o)
\* A sequence given by a rule, as the tuple of its elements.
Tuple(f) == f \o <<>>

(***************************************************************************)
(* grease_pencil.py: GREASE_PENCIL_OT_perspective_warp                     *)
(***************************************************************************)
WarpGrid == {<<RInt(x), RInt(y)>> : x \in 0..MaxCoord, y \in 0..MaxCoord}
TargetGrid == {<<RInt(x), RInt(y)>> : x \in 0..MaxCoord + 1, y \in 0..MaxCoord + 1}
\* The strokes the user can have drawn: 1..MaxWarpPts points of the grid.
StrokeShapes == UNION {[1..n -> WarpGrid] : n \in 1..MaxWarpPts}

\* Lines 98-107: the corners of the bounding box of the stroke's points.
SrcBBox_minFirst(points) ==
    LET xs == {points[i][1] : i \in 1..Len(points)}
        ys == {points[i][2] : i \in 1..Len(points)}
    IN << <<RMin(xs), RMin(ys)>>, <<RMin(xs), RMax(ys)>>,
          <<RMax(xs), RMax(ys)>>, <<RMax(xs), RMin(ys)>> >>
SrcBBox(points) ==
    LET xs == {points[i][1] : i \in 1..Len(points)}
        ys == {points[i][2] : i \in 1..Len(points)}
    IN << <<RMin(xs), RMin(ys)>>, <<RMax(xs), RMin(ys)>>,
          <<RMax(xs), RMax(ys)>>, <<RMin(xs), RMax(ys)>> >>

\* Lines 153-160: the rows of A with the entry of B as ninth column.
SystemRows_signSlip(src, dst) ==
    LET row(r) ==
          LET i == (r + 1) \div 2
              x == src[i][1]
              y == src[i][2]
              u == dst[i][1]
              v == dst[i][2]
          IN IF r % 2 = 1
             THEN <<x, y, One, Zero, Zero, Zero, RMul(u, x), RNeg(RMul(u, y)), u>>
             ELSE <<Zero, Zero, Zero, x, y, One, RNeg(RMul(v, x)), RNeg(RMul(v, y)), v>>
    IN Tuple([r \in 1..8 |-> row(r)])
SystemRows(src, dst) ==
    LET row(r) ==
          LET i == (r + 1) \div 2
              x == src[i][1]
              y == src[i][2]
              u == dst[i][1]
              v == dst[i][2]
          IN IF r % 2 = 1
             THEN <<x, y, One, Zero, Zero, Zero, RNeg(RMul(u, x)), RNeg(RMul(u, y)), u>>
             ELSE <<Zero, Zero, Zero, x, y, One, RNeg(RMul(v, x)), RNeg(RMul(v, y)), v>>
    IN Tuple([r \in 1..8 |-> row(r)])

\* np.linalg.solve(A, B): the solution of A X = B, by elimination with exact
\* arithmetic; ok is FALSE when A is singular (numpy raises LinAlgError).
RECURSIVE Eliminate(_, _)
Eliminate(M, k) ==
    IF k > 8 THEN [ok |-> TRUE, X |-> Tuple([i \in 1..8 |-> M[i][9]])]
    ELSE LET cand == {i \in k..8 : M[i][k] # Zero}
         IN IF cand = {} THEN [ok |-> FALSE, X |-> <<>>]
            ELSE LET p == CHOOSE i \in cand : \A j \in cand : i <= j
                     sw == Tuple([i \in 1..8 |->
                                    IF i = k THEN M[p] ELSE IF i = p THEN M[k] ELSE M[i]])
                     prow == Tuple([j \in 1..9 |-> RDiv(sw[k][j], sw[k][k])])
                     next == Tuple([i \in 1..8 |->
                                 IF i = k THEN prow
                                 ELSE Tuple([j \in 1..9 |->
                                        RSub(sw[i][j], RMul(sw[i][k], prow[j]))])])
                 IN Eliminate(next, k + 1)
linalg_solve(M) == Eliminate(M, 1)

\* Lines 151-165: ok and the matrix rows ((X0, X1, X2), (X3, X4, X5), (X6, X7, 1)).
compute_matrix(src, dst) ==
    LET sol == linalg_solve(SystemRows(src, dst))
    IN IF sol.ok
       THEN [ok |-> TRUE,
             M |-> << <<sol.X[1], sol.X[2], sol.X[3]>>,
                      <<sol.X[4], sol.X[5], sol.X[6]>>,
                      <<sol.X[7], sol.X[8], One>> >>]
       ELSE [ok |-> FALSE, M |-> <<>>]

\* Line 142: mat @ Vector((x, y, 1.0)).
MatVec(M, pt) ==
    [r \in 1..3 |-> RAdd(RAdd(RMul(M[r][1], pt[1]), RMul(M[r][2], pt[2])), M[r][3])]

\* Lines 141-144: the points after the loop; the division by vec.z = 0 at a
\* point raises ZeroDivisionError and leaves that point and the later ones.
RECURSIVE WarpPoints(_, _, _)
WarpPoints(M, points, k) ==
    IF k > Len(points) THEN [raised |-> FALSE, points |-> points]
    ELSE LET vec == MatVec(M, points[k])
         IN IF vec[3] = Zero THEN [raised |-> TRUE, points |-> points]
            ELSE WarpPoints(M, [points EXCEPT ![k] = <<RDiv(vec[1], vec[3]),
                                                       RDiv(vec[2], vec[3])>>], k + 1)

\* Line 138: the (x, y) of the handles' locations.
Dst == Tuple([i \in 1..Len(handles) |-> objects[handles[i]]])

\* The ids of the objects invoke creates in its session.
NewHandles == Tuple([i \in 1..4 |-> 4 * warp_sessions + i])

\* Lines 146-148: every handle removed from bpy.data.objects.
RemoveHandles_keepLast(objs, hs) ==
    [o \in (DOMAIN objs) \ (Range(hs) \ {Last(hs)}) |-> objs[o]]
RemoveHandles(objs, hs) == [o \in (DOMAIN objs) \ Range(hs) |-> objs[o]]

\* Lines 132-149. The host ends the modal session when finish returns and when
\* it raises; a raise leaves everything after the raising line undone.
finish(conf) ==
    /\ warp_running' = FALSE
    /\ UNCHANGED <<active_object, has_frame, src_bbox, warp_sessions, moves>>
    /\ IF active_object # "GP" THEN
         \* line 134: obj.data of a handle (an empty) is None
         /\ result' = "EXCEPTION"
         /\ UNCHANGED <<frame_strokes, objects, handles>>
       ELSE IF conf THEN
         LET mat == compute_matrix(src_bbox, Dst)
             warped == WarpPoints(mat.M, frame_strokes[1], 1)
         IN IF ~mat.ok THEN
              /\ result' = "EXCEPTION"
              /\ UNCHANGED <<frame_strokes, objects, handles>>
            ELSE IF warped.raised THEN
              /\ result' = "EXCEPTION"
              /\ frame_strokes' = [frame_strokes EXCEPT ![1] = warped.points]
              /\ UNCHANGED <<objects, handles>>
            ELSE
              /\ result' = "FINISHED"
              /\ frame_strokes' = [frame_strokes EXCEPT ![1] = warped.points]
              /\ objects' = RemoveHandles(objects, handles)
              /\ handles' = <<>>
       ELSE
         /\ result' = "FINISHED"
         /\ objects' = RemoveHandles(objects, handles)
         /\ handles' = <<>>
         /\ UNCHANGED frame_strokes

\* Lines 88 and 92: the precondition that fails, or "NONE".
InvokeError_noCountCheck(hasf, strks) ==
    IF ~hasf \/ Len(strks) = 0 THEN "No stroke available" ELSE "NONE"
InvokeError(hasf, strks) ==
    IF ~hasf \/ Len(strks) = 0 THEN "No stroke available"
    ELSE IF Len(strks) > 1 THEN "Only one stroke allowed per layer"
    ELSE "NONE"

\* poll holds: the active object is the grease pencil object.
PerspectiveWarp_invoke ==
    /\ ~warp_running
    /\ active_object = "GP"
    /\ lastOp' = "warp_invoke"
    /\ lastEvent' = NoEvent
    /\ UNCHANGED <<drawVars, maskVars>>
    /\ UNCHANGED <<active_object, has_frame, frame_strokes, confirm>>
    /\ IF InvokeError(has_frame, frame_strokes) # "NONE" THEN
         /\ report' = InvokeError(has_frame, frame_strokes)
         /\ result' = "CANCELLED"
         /\ UNCHANGED <<objects, handles, src_bbox, warp_running, warp_sessions, moves>>
       ELSE
         /\ warp_sessions < MaxWarpSessions
         /\ src_bbox' = SrcBBox(frame_strokes[1])
         /\ handles' = NewHandles
         /\ objects' = [o \in (DOMAIN objects) \cup Range(NewHandles) |->
                          IF o \in DOMAIN objects THEN objects[o]
                          ELSE SrcBBox(frame_strokes[1])[o - 4 * warp_sessions]]
         /\ warp_running' = TRUE
         /\ warp_sessions' = warp_sessions + 1
         /\ moves' = 0
         /\ report' = "Move handles and press Enter to confirm"
         /\ result' = "RUNNING_MODAL"

\* Line 130: the event goes on to the host, which acts on it: a click makes
\* the clicked object (a handle or the grease pencil object) the active one,
\* a grab moves a handle, a mouse move does nothing.
PassThrough(ev) ==
    /\ result' = "PASS_THROUGH"
    /\ UNCHANGED <<has_frame, frame_strokes, handles, src_bbox, confirm,
                   warp_running, warp_sessions>>
    /\ IF ev.type = "LEFTMOUSE" THEN
         /\ active_object' = ev.obj
         /\ UNCHANGED <<objects, moves>>
       ELSE IF ev.type = "G" THEN
         /\ moves < MaxMoves
         /\ ev.h \in DOMAIN objects
         /\ objects' = [objects EXCEPT ![ev.h] = ev.loc]
         /\ moves' = moves + 1
         /\ UNCHANGED active_object
       ELSE UNCHANGED <<active_object, objects, moves>>

PerspectiveWarp_modal(ev) ==
    /\ warp_running
    /\ lastOp' = "warp_modal"
    /\ lastEvent' = [type |-> ev.type, value |-> "PRESS"]
    /\ UNCHANGED <<drawVars, maskVars, report>>
    /\ IF ev.type \in {"RET", "NUMPAD_ENTER"} THEN
         /\ confirm' = TRUE
         /\ finish(TRUE)
       ELSE IF ev.type \in {"ESC"} THEN
         /\ confirm' = FALSE
         /\ finish(FALSE)
       ELSE PassThrough(ev)

\* The events of a warp session, with what the host does with those passed on.
WarpEvents ==
    {[type |-> t] : t \in {"RET", "NUMPAD_ENTER", "ESC", "MOUSEMOVE"}}
    \cup {[type |-> "LEFTMOUSE", obj |-> o] : o \in {"GP", "HANDLE"}}
    \cup {[type |-> "G", h |-> h, loc |-> l] : h \in 1..(4 * MaxWarpSessions), l \in TargetGrid}

\* The scenes poll accepts: no active frame, or a frame of 0, 1 or 2 strokes.
InitWarp ==
    /\ DrawLoaded
    /\ NothingCalled
    /\ MaskIdle
    /\ WarpIdle
    /\ has_frame \in BOOLEAN
    /\ \/ frame_strokes = <<>>
       \/ /\ has_frame
          /\ \E a \in StrokeShapes : frame_strokes = <<a>>
       \/ /\ has_frame
          /\ \E a \in StrokeShapes : frame_strokes = <<a, a>>

NextWarp ==
    \/ PerspectiveWarp_invoke
    \/ \E ev \in WarpEvents : PerspectiveWarp_modal(ev)

SpecWarp == InitWarp /\ [][NextWarp]_vars

(***************************************************************************)
(* Properties of the draw demo                                             *)
(***************************************************************************)
Ev(t, v) == [type |-> t, value |-> v]
Handled(t, v) == lastOp = "modal" /\ lastEvent = Ev(t, v)
\* The point sequences a list of the module holds, in its order.
IsUndo == lastOp = "undo" \/ Handled("Z", "PRESS")
IsRedo == lastOp = "redo" \/ Handled("Y", "PRESS")

\* C1: right after modal has handled a LEFTMOUSE PRESS, redo_stack is empty,
\* and a redo issued in that state changes neither list.
C1_RedoClearedOnPress ==
    Handled("LEFTMOUSE", "PRESS") =>
        /\ redo_stack = <<>>
        /\ RedoLists(strokes, redo_stack) = <<strokes, redo_stack>>
C1_Witness ==
    /\ Handled("LEFTMOUSE", "PRESS")
    /\ Len(strokes) >= 2
    /\ redo_stack = <<>>

\* C2: an undo with strokes non-empty moves the last element of strokes to the
\* end of redo_stack, a redo with redo_stack non-empty moves the last element
\* of redo_stack to the end of strokes, and from every reachable state such an
\* undo followed by a redo, and such a redo followed by an undo, give back the
\* two lists.
C2_RoundTrip ==
    /\ strokes # <<>> =>
          LET u == UndoLists(strokes, redo_stack)
          IN RedoLists(u[1], u[2]) = <<strokes, redo_stack>>
    /\ redo_stack # <<>> =>
          LET r == RedoLists(strokes, redo_stack)
          IN UndoLists(r[1], r[2]) = <<strokes, redo_stack>>
C2_PushPopStep ==
    /\ (IsUndo' /\ strokes # <<>>) =>
          /\ Contents(heap', strokes') = Front(Contents(heap, strokes))
          /\ Contents(heap', redo_stack') =
                Append(Contents(heap, redo_stack), heap[Last(strokes)])
    /\ (IsRedo' /\ redo_stack # <<>>) =>
          /\ Contents(heap', redo_stack') = Front(Contents(heap, redo_stack))
          /\ Contents(heap', strokes') =
                Append(Contents(heap, strokes), heap[Last(redo_stack)])
C2_UndoRedoPushPop == [](C2_RoundTrip) /\ [][C2_PushPopStep]_vars
C2_Witness ==
    /\ Handled("Y", "PRESS")
    /\ Len(strokes) >= 2
    /\ redo_stack # <<>>
    /\ heap[Last(strokes)] # heap[Last(redo_stack)]
    /\ heap[strokes[1]] # heap[Last(strokes)]

\* C3: modal returns CANCELLED and removes the draw handler on RIGHTMOUSE and
\* ESC, and returns RUNNING_MODAL and leaves the handler on every other event;
\* the handler is registered exactly while the session runs and is removed at
\* most once, exactly once when the session has ended.
C3_HandlerFollowsSession ==
    /\ running <=> draw_handlers = 1
    /\ ~running <=> draw_handlers = 0
    /\ removals <= 1
    /\ (sessions = 1 /\ ~running) <=> removals = 1
    /\ (lastOp = "modal" /\ lastEvent.type \in {"RIGHTMOUSE", "ESC"}) =>
          result = "CANCELLED" /\ ~running
    /\ (lastOp = "modal" /\ lastEvent.type \notin {"RIGHTMOUSE", "ESC"}) =>
          result = "RUNNING_MODAL" /\ running
    /\ lastOp = "invoke" => result = "RUNNING_MODAL" /\ running
C3_Witness ==
    /\ Handled("RIGHTMOUSE", "RELEASE")
    /\ removals = 1
    /\ draw_handlers = 0
    /\ strokes # <<>>

\* C4 as claimed: when a session is invoked after an earlier one ended, no
\* stroke recorded in an earlier session is in strokes or redo_stack.
C4_NoStrokeOfEarlierSession ==
    lastOp = "invoke" => earlier \cap (Range(strokes) \cup Range(redo_stack)) = {}
\* C4 as amended: the two lists outlive a session: ending a session and
\* invoking a new one change neither list nor any stored stroke.
C4_ListsOutliveSession ==
    [][((lastOp' = "invoke") \/ (lastOp' = "modal" /\ lastEvent'.type \in {"RIGHTMOUSE", "ESC"}))
        => UNCHANGED <<strokes, redo_stack, heap, current_stroke>>]_vars
C4_Witness ==
    /\ lastOp = "invoke"
    /\ strokes # <<>>
    /\ redo_stack # <<>>
    /\ Range(strokes) \cup Range(redo_stack) \subseteq earlier
    /\ heap[strokes[1]] # <<>>

\* C9 as claimed: while a session runs and no stroke is in progress, the draw
\* callback draws exactly the stored strokes of at least two points, each once.
C9_DrawsStoredStrokesOnly ==
    (running /\ ~left_held) => draw_callback_px = StoredPolylines(strokes)

\* C10 as claimed: while a stroke is in progress it is the last element of
\* strokes, and a MOUSEMOVE changes no stroke of redo_stack and no stroke of
\* strokes but the one in progress, to which it appends its point.
C10_MoveStep ==
    (lastOp' = "modal" /\ lastEvent'.type = "MOUSEMOVE") =>
        /\ left_held =>
              /\ strokes # <<>>
              /\ current_stroke = Last(strokes)
              /\ \E pos \in Positions :
                    heap'[Last(strokes)] = Append(heap[Last(strokes)], pos)
        /\ \A i \in Range(redo_stack) : heap'[i] = heap[i]
        /\ \A k \in 1..Len(strokes) :
              (~left_held \/ k < Len(strokes)) => heap'[strokes[k]] = heap[strokes[k]]
C10_MoveTouchesOnlyStrokeInProgress == [][C10_MoveStep]_vars

(***************************************************************************)
(* Properties of the relative layer mask operator                          *)
(***************************************************************************)
MaskAddCalled(mode) == lastOp' = "mask_add" /\ mask_mode' = mode
\* The neighbour of the active layer in the direction of the mode.
Neighbour(mode) == IF mode = "ABOVE" THEN next_node(active_layer) ELSE prev_node(active_layer)
NeighbourUsable(mode) ==
    /\ Neighbour(mode) # None
    /\ node_kind[Neighbour(mode)] = "LAYER"
    /\ Neighbour(mode) \notin Range(mask_layers[active_layer])

\* C7: execute in mode ABOVE (BELOW) with next_node (prev_node) a layer that is
\* not yet a mask of the active layer adds that neighbour's name to the active
\* layer's masks, sets its use_masks, returns FINISHED, and changes the mask
\* list of no other layer.
C7_Step ==
    \A mode \in {"ABOVE", "BELOW"} :
        (MaskAddCalled(mode) /\ NeighbourUsable(mode)) =>
            /\ Neighbour(mode) \in Range(mask_layers'[active_layer])
            /\ Range(mask_layers'[active_layer]) =
                  Range(mask_layers[active_layer]) \cup {Neighbour(mode)}
            /\ use_masks'[active_layer]
            /\ result' = "FINISHED"
            /\ \A n \in Nodes \ {active_layer} : mask_layers'[n] = mask_layers[n]
C7_MasksWithNeighbour == [][C7_Step]_vars
C7_Witness ==
    /\ lastOp = "mask_add"
    /\ mask_mode = "BELOW"
    /\ result = "FINISHED"
    /\ active_layer = 2
    /\ mask_layers[2] = <<3, 1>>
    /\ use_masks[2]
    /\ ~use_masks[1]

\* C8: when the neighbour in the chosen direction is absent, is no layer, or is
\* already a mask of the active layer, execute reports an error, returns
\* CANCELLED and leaves the active layer's mask_layers and use_masks as they
\* were.
C8_Step ==
    \A mode \in {"ABOVE", "BELOW"} :
        (MaskAddCalled(mode) /\ ~NeighbourUsable(mode)) =>
            /\ result' = "CANCELLED"
            /\ report' \in {"No layer found", "Layer is already added as a mask"}
            /\ mask_layers'[active_layer] = mask_layers[active_layer]
            /\ use_masks'[active_layer] = use_masks[active_layer]
C8_FailsWithoutEffect == [][C8_Step]_vars
C8_Witness ==
    /\ lastOp = "mask_add"
    /\ result = "CANCELLED"
    /\ report = "Layer is already added as a mask"
    /\ mask_mode = "ABOVE"
    /\ mask_layers[active_layer] = <<active_layer + 1>>

(***************************************************************************)
(* Properties of the perspective warp operator                             *)
(***************************************************************************)
\* C5: when the active frame is missing or has no stroke, or has more than one
\* stroke, invoke reports the error and returns CANCELLED, and has created or
\* linked no handle object, added no modal handler and changed no stroke point.
C5_Step ==
    (lastOp' = "warp_invoke" /\ (~has_frame \/ Len(frame_strokes) # 1)) =>
        /\ result' = "CANCELLED"
        /\ report' = IF ~has_frame \/ Len(frame_strokes) = 0
                     THEN "No stroke available"
                     ELSE "Only one stroke allowed per layer"
        /\ objects' = objects
        /\ handles' = handles
        /\ ~warp_running'
        /\ frame_strokes' = frame_strokes
C5_FailedInvokeChangesNothing == [][C5_Step]_vars
C5_Witness ==
    /\ lastOp = "warp_invoke"
    /\ result = "CANCELLED"
    /\ report = "Only one stroke allowed per layer"
    /\ Len(frame_strokes) = 2
    /\ DOMAIN objects = {}
    /\ ~warp_running

\* C6 as claimed: when the warp session handles ESC, the session ends, no
\* stroke point has changed, and every handle object invoke created is removed.
C6_Step ==
    (lastOp' = "warp_modal" /\ lastEvent'.type = "ESC") =>
        /\ ~warp_running'
        /\ frame_strokes' = frame_strokes
        /\ Range(handles) \cap DOMAIN objects' = {}
C6_CancelRemovesHandles == [][C6_Step]_vars

(***************************************************************************)
(* operator_modal_draw.py: the gesture, undo and redo                      *)
(***************************************************************************)
\* C11: while the left button is not held (after a LEFTMOUSE RELEASE, or
\* after a session was cancelled and a new one invoked, and before the next
\* LEFTMOUSE PRESS) a MOUSEMOVE event leaves every stroke of strokes and of
\* redo_stack as it was.
C11_Step ==
    (lastOp' = "modal" /\ lastEvent'.type = "MOUSEMOVE" /\ ~left_held) =>
        /\ Contents(heap', strokes') = Contents(heap, strokes)
        /\ Contents(heap', redo_stack') = Contents(heap, redo_stack)
C11_StoredStrokesChangeOnlyWhileHeld == [][C11_Step]_vars

\* C12: when no undo, redo or cancel event came between a LEFTMOUSE PRESS and
\* its RELEASE, the state left by the RELEASE has in strokes the strokes that
\* were there at the PRESS, content and order kept, followed by one stroke
\* made of the positions of the MOUSEMOVE events in between, in their order.
C12_GestureStored ==
    (Handled("LEFTMOUSE", "RELEASE") /\ gesture.phase = "closed") =>
        Contents(heap, strokes) = Append(gesture.before, gesture.moves)
C12_Witness ==
    /\ Handled("LEFTMOUSE", "RELEASE")
    /\ gesture.phase = "closed"
    /\ Len(gesture.before) >= 1
    /\ Len(gesture.moves) = 2
    /\ gesture.moves[1] # gesture.moves[2]
    /\ Contents(heap, strokes) = Append(gesture.before, gesture.moves)

\* The strokes of a list as a multiset: stroke contents -> number of copies.
BagOf(c) == [x \in Range(c) |-> Cardinality({k \in 1..Len(c) : c[k] = x})]
Stored(h, s, r) == BagOf(Contents(h, s) \o Contents(h, r))

\* C13: every Z/Y press and every StrokeUndo/StrokeRedo execution leaves the
\* strokes of strokes and redo_stack together unchanged as a multiset and the
\* sum of the two lengths constant; an undo with strokes empty and a redo
\* with redo_stack empty change neither list; the modal handler returns
\* RUNNING_MODAL and the panel operators return FINISHED.
C13_Step ==
    (IsUndo' \/ IsRedo') =>
        /\ Stored(heap', strokes', redo_stack') = Stored(heap, strokes, redo_stack)
        /\ Len(strokes') + Len(redo_stack') = Len(strokes) + Len(redo_stack)
        /\ ((IsUndo' /\ strokes = <<>>) \/ (IsRedo' /\ redo_stack = <<>>)) =>
              /\ Contents(heap', strokes') = Contents(heap, strokes)
              /\ Contents(heap', redo_stack') = Contents(heap, redo_stack)
        /\ lastOp' = "modal" => (result' = "RUNNING_MODAL" /\ running')
        /\ lastOp' \in {"undo", "redo"} => result' = "FINISHED"
C13_UndoRedoKeepStrokes == [][C13_Step]_vars
C13_Witness ==
    /\ IsRedo
    /\ Len(strokes) = 2
    /\ redo_stack = <<>>
    /\ heap[strokes[1]] # heap[strokes[2]]

(***************************************************************************)
(* Properties of a started warp session                                    *)
(***************************************************************************)
WarpKeys == {"RET", "NUMPAD_ENTER", "ESC"}
\* The corners of the bounding box of a stroke, in the order of the claim.
Corners(points) ==
    LET xs == {points[i][1] : i \in 1..Len(points)}
        ys == {points[i][2] : i \in 1..Len(points)}
        min_x == CHOOSE a \in xs : \A b \in xs : ~RLess(b, a)
        max_x == CHOOSE a \in xs : \A b \in xs : ~RLess(a, b)
        min_y == CHOOSE a \in ys : \A b \in ys : ~RLess(b, a)
        max_y == CHOOSE a \in ys : \A b \in ys : ~RLess(a, b)
    IN << <<min_x, min_y>>, <<max_x, min_y>>, <<max_x, max_y>>, <<min_x, max_y>> >>

\* C14: an invoke that finds exactly one stroke creates exactly four handle
\* objects, placed at (min_x,min_y), (max_x,min_y), (max_x,max_y),
\* (min_x,max_y) of the stroke's bounding box in this order, and returns
\* RUNNING_MODAL; afterwards every event whose type is not RET, NUMPAD_ENTER
\* or ESC returns PASS_THROUGH and changes neither the stored source box, the
\* handle list, the confirm flag nor any stroke point, and the session goes on.
C14_InvokeStep ==
    (lastOp' = "warp_invoke" /\ has_frame /\ Len(frame_strokes) = 1) =>
        /\ result' = "RUNNING_MODAL"
        /\ warp_running'
        /\ Len(handles') = 4
        /\ Cardinality(Range(handles')) = 4
        /\ Range(handles') = (DOMAIN objects') \ (DOMAIN objects)
        /\ \A i \in 1..4 : objects'[handles'[i]] = Corners(frame_strokes[1])[i]
        /\ src_bbox' = Corners(frame_strokes[1])
        /\ frame_strokes' = frame_strokes
C14_PassStep ==
    (lastOp' = "warp_modal" /\ lastEvent'.type \notin WarpKeys) =>
        /\ result' = "PASS_THROUGH"
        /\ warp_running'
        /\ src_bbox' = src_bbox
        /\ handles' = handles
        /\ confirm' = confirm
        /\ frame_strokes' = frame_strokes
C14_SessionWaitsForKey == [][C14_InvokeStep /\ C14_PassStep]_vars
C14_Witness ==
    /\ lastOp = "warp_modal"
    /\ lastEvent.type = "G"
    /\ result = "PASS_THROUGH"
    /\ warp_running
    /\ Len(handles) = 4
    /\ Cardinality(Range(src_bbox)) = 4
    /\ src_bbox = Corners(frame_strokes[1])
    /\ \E i \in 1..4 : objects[handles[i]] # src_bbox[i]

\* C15 as claimed: after the session has handled RET, NUMPAD_ENTER or ESC,
\* none of the handle objects invoke created remains in the scene and the
\* operator's handle list is reset, whatever the stroke's shape, the handles'
\* places and the changes the user made through passed-through events.
C15_Step ==
    (lastOp' = "warp_modal" /\ lastEvent'.type \in WarpKeys) =>
        /\ \A i \in 1..Len(handles) : handles[i] \notin DOMAIN objects'
        /\ handles' = <<>>
C15_EveryEndingCleansUp == [][C15_Step]_vars

\* The points of the one stroke with the matrix of the session applied to
\* every point; defined when the system has a solution and no divisor is zero.
AllWarped(points) ==
    LET mat == compute_matrix(src_bbox, Dst)
    IN [k \in 1..Len(points) |->
          LET vec == MatVec(mat.M, points[k])
          IN <<RDiv(vec[1], vec[3]), RDiv(vec[2], vec[3])>>]
Warpable(points) ==
    /\ compute_matrix(src_bbox, Dst).ok
    /\ \A k \in 1..Len(points) :
          MatVec(compute_matrix(src_bbox, Dst).M, points[k])[3] # Zero

\* C16 as claimed: after the session has handled RET or NUMPAD_ENTER, either
\* every point of the stroke has been replaced by its transformed position or
\* no point of the stroke has changed.
C16_Step ==
    (lastOp' = "warp_modal" /\ lastEvent'.type \in {"RET", "NUMPAD_ENTER"}) =>
        \/ frame_strokes' = frame_strokes
        \/ /\ Warpable(frame_strokes[1])
           /\ frame_strokes' = <<AllWarped(frame_strokes[1])>>
C16_ConfirmAllOrNothing == [][C16_Step]_vars

\* The session handles a confirm key while the grease pencil object is active:
\* finish gets as far as compute_matrix(self._src_bbox, dst).
Confirms ==
    /\ lastOp' = "warp_modal"
    /\ lastEvent'.type \in {"RET", "NUMPAD_ENTER"}
    /\ active_object = "GP"
\* Corner i of the source box under matrix M, after the homogeneous divide.
MappedCorner(M, i) ==
    <<RDiv(MatVec(M, src_bbox[i])[1], MatVec(M, src_bbox[i])[3]),
      RDiv(MatVec(M, src_bbox[i])[2], MatVec(M, src_bbox[i])[3])>>
Unmoved == Dst = src_bbox

\* C17 as claimed: on every confirm compute_matrix(src, dst) returns a 3x3
\* matrix with bottom-right entry 1 that, after the homogeneous divide, maps
\* each of the four source corners to the position of its handle; confirming
\* with all four handles unmoved leaves every stroke point where it was.
C17_ClaimedStep ==
    /\ Confirms =>
          LET mat == compute_matrix(src_bbox, Dst)
          IN /\ mat.ok
             /\ Len(mat.M) = 3
             /\ mat.M[3][3] = One
             /\ \A i \in 1..4 :
                   /\ MatVec(mat.M, src_bbox[i])[3] # Zero
                   /\ MappedCorner(mat.M, i) = Dst[i]
    /\ (Confirms /\ Unmoved) => frame_strokes' = frame_strokes
C17_Step ==
    /\ Confirms =>
          LET mat == compute_matrix(src_bbox, Dst)
          IN IF mat.ok
             THEN /\ Len(mat.M) = 3
                  /\ \A r \in 1..3 : Len(mat.M[r]) = 3
                  /\ mat.M[3][3] = One
                  /\ \A i \in 1..4 :
                        MatVec(mat.M, src_bbox[i])[3] # Zero =>
                            MappedCorner(mat.M, i) = Dst[i]
                  /\ result' = "FINISHED" =>
                        frame_strokes' = <<AllWarped(frame_strokes[1])>>
             ELSE /\ result' = "EXCEPTION"
                  /\ frame_strokes' = frame_strokes
    /\ (Confirms /\ Unmoved) => frame_strokes' = frame_strokes
====
